---- MODULE Spec2Model ----
(***************************************************************************)
(* Academeet: consultation windows, slot generation, booking and           *)
(* cancellation.  The store (consultation_windows, slots) is the shared    *)
(* state; every server action is a sequence of store round trips, each of  *)
(* which is one atomic step here.                                          *)
(*   professor actions : src/unnamed/part_006                              *)
(*   student actions   : src/src/app/student/dashboard/actions.ts (1-174)  *)
(***************************************************************************)
EXTENDS Integers, Sequences, FiniteSets, TLC

VARIABLES windows, slots, nextWindowId, nextSlotId, now, calls, quota, gen, dismissedIds,
          projector

vars == <<windows, slots, nextWindowId, nextSlotId, now, calls, quota, gen, dismissedIds,
          projector>>

----------------------------------------------------------------------------
(* Bounds of the model *)

MaxSlotId == 4
MaxWindowId == 2
MaxCalls == 2
MaxTicks == 1
GenMaxSpan == 125

(* Program constants *)

MinAgendaLen == 10
MinDuration == 10
MaxDuration == 60
MinutesPerDay == 1440

----------------------------------------------------------------------------
(* Identities, texts and inputs *)

Students == {"s1", "s2"}
Professors == {"p1"}

\* a second browser session of professor p1
SecondSession == "p1b"
ProfessorSessions == Professors \cup {SecondSession}

\* a professor who owns no window
OtherProfessor == "p2"
Callers == Students \cup ProfessorSessions \cup {OtherProfessor}

\* supabase.auth.getUser(): the user a session belongs to
getUser(c) == IF c = SecondSession THEN "p1" ELSE c

NULL == "null"

\* A nullable text column: <<>> is SQL NULL, <<t>> holds the text t
\* (a sequence of characters).
NoText == <<>>
Some(t) == <<t>>

AgendaShort == <<"t","o","o"," ","s","h","o","r","t">>
AgendaTen == <<"t","h","e","s","i","s"," ","c","h","1">>
AgendaLong == <<"d","e","b","u","g"," ","m","y"," ","c","o","d","e">>
Agendas == {AgendaShort, AgendaTen, AgendaLong}
ValidAgendas == {a \in Agendas : Len(a) >= MinAgendaLen}

ReasonSick == <<"S","i","c","k">>
Reasons == {<<>>, ReasonSick}

\* reasons and agendas shown to the notification surface
ReasonSickLeave == <<"S","i","c","k"," ","L","e","a","v","e">>
ReasonPadded == <<"S","i","c","k"," ","L","e","a","v","e"," ">>
ReasonTwoLines == <<"f","l","u","\n","b","a","c","k"," ","M","o","n","d","a","y">>
AgendaEssay ==
    <<"p","l","e","a","s","e"," ","r","e","v","i","e","w"," ","m","y"," ","t",
      "h","e","s","i","s"," ","d","r","a","f","t"," ","a","n","d"," ","t","h",
      "e"," ","c","h","2"," ","p","r","o","o","f","s"," ","o","k">>
NoticeReasons == {<<>>, ReasonSickLeave, ReasonPadded, ReasonTwoLines}
NoticeAgendas == {AgendaTen, AgendaLong, AgendaEssay}

Form(start, end, duration) ==
    [date |-> 1, start_time |-> start, end_time |-> end, duration |-> duration,
     topic |-> "General"]

\* 09:00-08:50 (end before start), 09:00-09:05 by 15 (too short),
\* 09:00-09:30 by 15 (two slots), 09:00-09:30 by 20 (one slot and a remainder)
Forms == {Form(540, 530, 15), Form(540, 545, 15), Form(540, 570, 15), Form(540, 570, 20)}

NowStart == MinutesPerDay + 500
TickMinutes == 60

----------------------------------------------------------------------------
(* Results returned by the actions *)

OK == "success"
ERR_VALIDATION == "Invalid form data."
ERR_AGENDA == "Agenda must be at least 10 characters."
ERR_NOT_FOUND == "Slot not found or could not be verified."
ERR_PASSED == "This consultation time has already passed and cannot be booked."
ERR_UNAVAILABLE == "This slot is no longer available."
ERR_BOOKED == "Cannot edit this window because it already has booked appointments."
ERR_PAST_WINDOW == "Consultation window cannot be scheduled in the past."
ERR_TOO_SHORT == "Time range is too short for at least one slot."
ERR_STORE == "store error"

Errors == {ERR_VALIDATION, ERR_AGENDA, ERR_NOT_FOUND, ERR_PASSED, ERR_UNAVAILABLE,
           ERR_BOOKED, ERR_PAST_WINDOW, ERR_TOO_SHORT, ERR_STORE}

----------------------------------------------------------------------------
(* Dates and times.  An instant is a number of minutes; a TIME column is    *)
(* "HH:MM:SS" and a TIMESTAMPTZ column is an ISO 8601 string with a 'T'.    *)

NaN == -1

parse(date, hhmm) == date * MinutesPerDay + hhmm
addMinutes(t, d) == t + d
isBefore(a, b) == a < b
toTimeColumn(hhmm) == [kind |-> "time", minutes |-> hhmm]
toISOString(t) == [kind |-> "timestamp", instant |-> t]

\* parseISO(`${date}T${start_time}`): a second 'T' in the string makes
\* date-fns return an Invalid Date, whose getTime() is NaN.
parseISODateT(date, col) ==
    IF col.kind = "time" THEN date * MinutesPerDay + col.minutes ELSE NaN

\* NaN < x is false in JavaScript.
numLess(a, b) == a # NaN /\ b # NaN /\ a < b

----------------------------------------------------------------------------
(* Slot generation loop *)

\* the loop continuing while the cursor is before the end
RECURSIVE generateSlots_overrun(_, _, _)
generateSlots_overrun(cursor, endDt, duration) ==
    IF isBefore(cursor, endDt)
    THEN <<[start_time |-> toISOString(cursor),
            end_time |-> toISOString(addMinutes(cursor, duration))]>>
         \o generateSlots_overrun(addMinutes(cursor, duration), endDt, duration)
    ELSE <<>>

\* the loop without the equality disjunct
RECURSIVE generateSlots_strict(_, _, _)
generateSlots_strict(cursor, endDt, duration) ==
    IF isBefore(addMinutes(cursor, duration), endDt)
    THEN <<[start_time |-> toISOString(cursor),
            end_time |-> toISOString(addMinutes(cursor, duration))]>>
         \o generateSlots_strict(addMinutes(cursor, duration), endDt, duration)
    ELSE <<>>

RECURSIVE generateSlots(_, _, _)
generateSlots(cursor, endDt, duration) ==
    IF isBefore(addMinutes(cursor, duration), endDt) \/ addMinutes(cursor, duration) = endDt
    THEN <<[start_time |-> toISOString(cursor),
            end_time |-> toISOString(addMinutes(cursor, duration))]>>
         \o generateSlots(addMinutes(cursor, duration), endDt, duration)
    ELSE <<>>

\* the check that rejects a range with no full slot, without it
noSlots_never(pending) == FALSE

\* the same check comparing the length below zero
noSlots_negative(pending) == Len(pending) < 0

\* pendingSlots.length === 0
noSlots(pending) == Len(pending) = 0

\* windowSchema: duration in [10,60], topic non-empty, end_time > start_time
windowSchema(form) ==
    /\ form.duration >= MinDuration
    /\ form.duration <= MaxDuration
    /\ form.topic # ""
    /\ form.end_time > form.start_time

----------------------------------------------------------------------------
(* Initial state *)

IdleCall == [op |-> "none", pc |-> "idle", res |-> "none", slot |-> 0, window |-> 0,
             agenda |-> NoText, form |-> <<>>, pending |-> <<>>, wrote |-> {},
             slotsCreated |-> 0]

\* no dashboard is open
NoEvent == [eventType |-> "none", row |-> <<>>]
ProjectorOff == [replicated |-> {}, channel |-> <<>>, slots |-> <<>>, last |-> NoEvent]

GenOff == [pc |-> "off", start_time |-> 0, end_time |-> 0, duration |-> 0, out |-> <<>>]

\* The store after professor p1 has published one window, 09:00-09:30 in
\* 15-minute slots, and either nobody has booked yet or student s1 has booked
\* the first slot; nobody has a request in flight.
InitForm == Form(540, 570, 15)
InitWindow == [id |-> 1, professor_id |-> "p1", date |-> InitForm.date,
               start_time |-> toTimeColumn(InitForm.start_time),
               end_time |-> toTimeColumn(InitForm.end_time), topic |-> InitForm.topic]
InitSlots ==
    LET pending == generateSlots(parse(InitForm.date, InitForm.start_time),
                                 parse(InitForm.date, InitForm.end_time), InitForm.duration)
    IN {[id |-> i, window_id |-> 1, professor_id |-> "p1", student_id |-> NULL,
         start_time |-> pending[i].start_time, end_time |-> pending[i].end_time,
         status |-> "open", agenda |-> NoText] : i \in 1..Len(pending)}

InitSlotsBooked ==
    {IF s.id = 1
     THEN [s EXCEPT !.status = "booked", !.student_id = "s1", !.agenda = Some(AgendaTen)]
     ELSE s : s \in InitSlots}

Init ==
    /\ windows = {InitWindow}
    /\ slots \in {InitSlots, InitSlotsBooked}
    /\ nextWindowId = 2
    /\ nextSlotId = Cardinality(InitSlots) + 1
    /\ now = NowStart
    /\ calls = [c \in Callers |-> IdleCall]
    /\ quota = MaxCalls
    /\ gen = GenOff
    /\ dismissedIds = [st \in Students |-> {}]
    /\ projector = ProjectorOff

----------------------------------------------------------------------------
(* Store helpers *)

SlotExists(id) == \E s \in slots : s.id = id
SlotById(id) == CHOOSE s \in slots : s.id = id
WindowExists(id) == \E w \in windows : w.id = id
WindowById(id) == CHOOSE w \in windows : w.id = id
SlotsOfWindow(wid) == {s \in slots : s.window_id = wid}

\* the slot table accepting rows for a window that is gone
foreignKeyOk_off(wid) == TRUE

\* slots.window_id references consultation_windows(id): the store refuses a
\* slot row whose window does not exist
foreignKeyOk(wid) == WindowExists(wid)

\* on delete cascade: the slots of a deleted window go with it, whatever their
\* status
cascade(table, wid) == {s \in table : s.window_id # wid}

\* A caller has one request in flight at a time; quota bounds the number of
\* requests of a run.
CanStart(c) == calls[c].pc \in {"idle", "done"} /\ quota > 0
Started(c) == quota' = quota - 1

\* the record of a request that returned
Done(op, res, wrote) ==
    [op |-> op, pc |-> "done", res |-> res, slot |-> 0, window |-> 0,
     agenda |-> NoText, form |-> <<>>, pending |-> <<>>, wrote |-> wrote,
     slotsCreated |-> 0]

\* the record of a request between two of its store round trips
InFlight(op, pc, slotId, wid, agenda, form, pending, wrote) ==
    [op |-> op, pc |-> pc, res |-> "none", slot |-> slotId, window |-> wid,
     agenda |-> agenda, form |-> form, pending |-> pending, wrote |-> wrote,
     slotsCreated |-> 0]

\* a request in flight returns
Return(c, res, wrote) ==
    [c EXCEPT !.pc = "done", !.res = res, !.slot = 0, !.window = 0, !.agenda = NoText,
              !.form = <<>>, !.pending = <<>>, !.wrote = wrote]

\* a create or edit returns { success: true, slotsCreated }
ReturnCreated(c, wrote, n) == [Return(c, OK, wrote) EXCEPT !.slotsCreated = n]

\* the batch insert losing its first row
NewSlotRows_skipFirst(pending, wid, prof, firstId) ==
    {[id |-> firstId + i - 1, window_id |-> wid, professor_id |-> prof,
      student_id |-> NULL, start_time |-> pending[i].start_time,
      end_time |-> pending[i].end_time, status |-> "open", agenda |-> NoText]
        : i \in 2..Len(pending)}

\* the batch insert writing the rows without their professor
NewSlotRows_noProfessor(pending, wid, prof, firstId) ==
    {[id |-> firstId + i - 1, window_id |-> wid, professor_id |-> NULL,
      student_id |-> NULL, start_time |-> pending[i].start_time,
      end_time |-> pending[i].end_time, status |-> "open", agenda |-> NoText]
        : i \in 1..Len(pending)}

\* rows of a batch insert: the store assigns fresh ids and column defaults
NewSlotRows(pending, wid, prof, firstId) ==
    {[id |-> firstId + i - 1, window_id |-> wid, professor_id |-> prof,
      student_id |-> NULL, start_time |-> pending[i].start_time,
      end_time |-> pending[i].end_time, status |-> "open", agenda |-> NoText]
        : i \in 1..Len(pending)}

----------------------------------------------------------------------------
(* createConsultationWindow *)

createConsultationWindow_begin(p, form, storeOk) ==
    /\ CanStart(p)
    /\ Started(p)
    /\ nextWindowId <= MaxWindowId
    /\ LET startDt == parse(form.date, form.start_time)
           endDt == parse(form.date, form.end_time)
           pendingSlots == generateSlots(startDt, endDt, form.duration)
           reject(err) ==
               /\ calls' = [calls EXCEPT ![p] =
                              Done("createConsultationWindow", err, {})]
               /\ UNCHANGED <<windows, nextWindowId>>
       IN IF ~windowSchema(form) THEN reject(ERR_VALIDATION)
          ELSE IF isBefore(startDt, now) THEN reject(ERR_PAST_WINDOW)
          ELSE IF noSlots(pendingSlots) THEN reject(ERR_TOO_SHORT)
          ELSE IF ~storeOk THEN reject(ERR_STORE)
          ELSE /\ nextSlotId + Len(pendingSlots) - 1 <= MaxSlotId
               /\ windows' = windows \cup
                     {[id |-> nextWindowId, professor_id |-> getUser(p), date |-> form.date,
                       start_time |-> toTimeColumn(form.start_time),
                       end_time |-> toTimeColumn(form.end_time), topic |-> form.topic]}
               /\ nextWindowId' = nextWindowId + 1
               /\ calls' = [calls EXCEPT ![p] =
                     InFlight("createConsultationWindow", "create_slots", 0, nextWindowId, NoText, form, pendingSlots, {"insert window"})]
    /\ UNCHANGED <<slots, nextSlotId, now, gen, dismissedIds, projector>>

createConsultationWindow_insertSlots(p, storeOk) ==
    /\ calls[p].pc = "create_slots"
    /\ LET c == calls[p]
           fkOk == foreignKeyOk(c.window)
       IN IF storeOk /\ fkOk
          THEN /\ nextSlotId + Len(c.pending) - 1 <= MaxSlotId
               /\ slots' = slots \cup NewSlotRows(c.pending, c.window, getUser(p), nextSlotId)
               /\ nextSlotId' = nextSlotId + Len(c.pending)
               /\ calls' = [calls EXCEPT ![p] =
                     ReturnCreated(c, c.wrote \cup {"insert slots"}, Len(c.pending))]
          ELSE /\ calls' = [calls EXCEPT ![p] = Return(c, ERR_STORE, c.wrote)]
               /\ UNCHANGED <<slots, nextSlotId>>
    /\ UNCHANGED <<windows, nextWindowId, now, quota, gen, dismissedIds, projector>>

----------------------------------------------------------------------------
(* deleteConsultationWindow: the slots of the window go with it *)

deleteConsultationWindow(p, wid) ==
    /\ CanStart(p)
    /\ Started(p)
    /\ windows' = {w \in windows : w.id # wid}
    /\ slots' = cascade(slots, wid)
    /\ calls' = [calls EXCEPT ![p] =
          Done("deleteConsultationWindow", OK, IF WindowExists(wid) THEN {"delete window"} ELSE {})]
    /\ UNCHANGED <<nextWindowId, nextSlotId, now, gen, dismissedIds, projector>>

----------------------------------------------------------------------------
(* editConsultationWindow *)

\* the guard query with the wrong status literal
bookedSlotsOf_cancelled(wid) == {s \in slots : s.window_id = wid /\ s.status = "cancelled"}

\* select id from slots where window_id = wid and status = 'booked'
bookedSlotsOf(wid) == {s \in slots : s.window_id = wid /\ s.status = "booked"}

editConsultationWindow_guard(p, wid, form, storeOk) ==
    /\ CanStart(p)
    /\ Started(p)
    /\ LET startDt == parse(form.date, form.start_time)
           endDt == parse(form.date, form.end_time)
           newSlots == generateSlots(startDt, endDt, form.duration)
           bookedSlots == bookedSlotsOf(wid)
           reject(err) ==
               calls' = [calls EXCEPT ![p] =
                           Done("editConsultationWindow", err, {})]
       IN IF ~windowSchema(form) THEN reject(ERR_VALIDATION)
          ELSE IF ~storeOk THEN reject(ERR_STORE)
          ELSE IF bookedSlots # {} THEN reject(ERR_BOOKED)
          ELSE IF isBefore(startDt, now) THEN reject(ERR_PAST_WINDOW)
          ELSE IF noSlots(newSlots) THEN reject(ERR_TOO_SHORT)
          ELSE calls' = [calls EXCEPT ![p] =
                  InFlight("editConsultationWindow", "edit_delete", 0, wid, NoText, form, newSlots, {})]
    /\ UNCHANGED <<windows, slots, nextWindowId, nextSlotId, now, gen, dismissedIds, projector>>

editConsultationWindow_delete(p, storeOk) ==
    /\ calls[p].pc = "edit_delete"
    /\ LET c == calls[p]
       IN IF storeOk
          THEN /\ slots' = {s \in slots : s.window_id # c.window}
               /\ calls' = [calls EXCEPT ![p] = [c EXCEPT !.pc = "edit_update",
                     !.wrote = IF SlotsOfWindow(c.window) # {} THEN @ \cup {"delete slots"} ELSE @]]
          ELSE /\ calls' = [calls EXCEPT ![p] = Return(c, ERR_STORE, c.wrote)]
               /\ UNCHANGED slots
    /\ UNCHANGED <<windows, nextWindowId, nextSlotId, now, quota, gen, dismissedIds, projector>>

editConsultationWindow_update(p, storeOk) ==
    /\ calls[p].pc = "edit_update"
    /\ LET c == calls[p]
           updated(w) == IF w.id = c.window /\ w.professor_id = getUser(p)
                         THEN [w EXCEPT !.date = c.form.date,
                                        !.start_time = toTimeColumn(c.form.start_time),
                                        !.end_time = toTimeColumn(c.form.end_time),
                                        !.topic = c.form.topic]
                         ELSE w
           newWindows == {updated(w) : w \in windows}
       IN IF storeOk
          THEN /\ windows' = newWindows
               /\ calls' = [calls EXCEPT ![p] = [c EXCEPT !.pc = "edit_insert",
                     !.wrote = IF newWindows # windows THEN @ \cup {"update window"} ELSE @]]
          ELSE /\ calls' = [calls EXCEPT ![p] = Return(c, ERR_STORE, c.wrote)]
               /\ UNCHANGED windows
    /\ UNCHANGED <<slots, nextWindowId, nextSlotId, now, quota, gen, dismissedIds, projector>>

editConsultationWindow_insert(p, storeOk) ==
    /\ calls[p].pc = "edit_insert"
    /\ LET c == calls[p]
           fkOk == foreignKeyOk(c.window)
       IN IF storeOk /\ fkOk
          THEN /\ nextSlotId + Len(c.pending) - 1 <= MaxSlotId
               /\ slots' = slots \cup NewSlotRows(c.pending, c.window, getUser(p), nextSlotId)
               /\ nextSlotId' = nextSlotId + Len(c.pending)
               /\ calls' = [calls EXCEPT ![p] =
                     ReturnCreated(c, c.wrote \cup {"insert slots"}, Len(c.pending))]
          ELSE /\ calls' = [calls EXCEPT ![p] = Return(c, ERR_STORE, c.wrote)]
               /\ UNCHANGED <<slots, nextSlotId>>
    /\ UNCHANGED <<windows, nextWindowId, now, quota, gen, dismissedIds, projector>>

----------------------------------------------------------------------------
(* bookSlot *)

\* the reservation without its status predicate
openSlotMatch_anyStatus(slotId) == {s \in slots : s.id = slotId}

\* the reservation refusing only cancelled slots
openSlotMatch_notCancelled(slotId) == {s \in slots : s.id = slotId /\ s.status # "cancelled"}

\* the rows of: where id = slotId and status = 'open'
openSlotMatch(slotId) == {s \in slots : s.id = slotId /\ s.status = "open"}

\* the schema demanding more than the minimum length
bookSlotSchema_strict(agenda) == Len(agenda) > MinAgendaLen

\* bookSlotSchema: agenda is a string of at least 10 characters
bookSlotSchema(agenda) == Len(agenda) >= MinAgendaLen

\* the booking update leaving the agenda column as it was
booked_noAgenda(s, st, agenda) == [s EXCEPT !.student_id = st, !.status = "booked"]

\* update { student_id: user.id, status: "booked", agenda }
booked(s, st, agenda) ==
    [s EXCEPT !.student_id = st, !.status = "booked", !.agenda = Some(agenda)]

bookSlot_fetch(st, slotId, agenda) ==
    /\ CanStart(st)
    /\ Started(st)
    /\ LET reject(err) == calls' = [calls EXCEPT ![st] =
                              Done("bookSlot", err, {})]
       IN IF ~bookSlotSchema(agenda) THEN reject(ERR_AGENDA)
          ELSE IF ~SlotExists(slotId) \/ ~WindowExists(SlotById(slotId).window_id)
               THEN reject(ERR_NOT_FOUND)
          ELSE LET slotData == SlotById(slotId)
                   windowDate == WindowById(slotData.window_id).date
                   slotDateTime == parseISODateT(windowDate, slotData.start_time)
               IN IF numLess(slotDateTime, now) THEN reject(ERR_PASSED)
                  ELSE calls' = [calls EXCEPT ![st] =
                          InFlight("bookSlot", "book_update", slotId, 0, Some(agenda), <<>>, <<>>, {})]
    /\ UNCHANGED <<windows, slots, nextWindowId, nextSlotId, now, gen, dismissedIds, projector>>

bookSlot_update(st) ==
    /\ calls[st].pc = "book_update"
    /\ LET c == calls[st]
           matched == openSlotMatch(c.slot)
       IN IF matched # {}
          THEN /\ slots' = (slots \ matched) \cup
                     {booked(s, st, c.agenda[1]) : s \in matched}
               /\ calls' = [calls EXCEPT ![st] =
                     [c EXCEPT !.pc = "done", !.res = OK, !.wrote = {"update slot"}]]
          ELSE /\ calls' = [calls EXCEPT ![st] =
                     [c EXCEPT !.pc = "done", !.res = ERR_UNAVAILABLE]]
               /\ UNCHANGED slots
    /\ UNCHANGED <<windows, nextWindowId, nextSlotId, now, quota, gen, dismissedIds, projector>>

----------------------------------------------------------------------------
(* updateBookingAgenda, cancelBooking *)

\* the rows of: where id = slotId and student_id = user.id
ownedSlotMatch(st, slotId) == {s \in slots : s.id = slotId /\ s.student_id = st}

\* the release leaving the agenda in place
reopened_keepAgenda(s) == [s EXCEPT !.status = "open", !.student_id = NULL]

\* the release leaving the student reference in place
reopened_keepStudent(s) == [s EXCEPT !.status = "open", !.agenda = NoText]

\* the release clearing the booking but not the status
reopened_keepStatus(s) == [s EXCEPT !.student_id = NULL, !.agenda = NoText]

\* update { status: "open", student_id: null, agenda: null }
reopened(s) == [s EXCEPT !.status = "open", !.student_id = NULL, !.agenda = NoText]

updateBookingAgenda(st, slotId, agenda) ==
    /\ CanStart(st)
    /\ Started(st)
    /\ LET matched == ownedSlotMatch(st, slotId)
       IN /\ slots' = (slots \ matched) \cup {[s EXCEPT !.agenda = Some(agenda)] : s \in matched}
          /\ calls' = [calls EXCEPT ![st] =
                Done("updateBookingAgenda", OK, IF slots' # slots THEN {"update slot"} ELSE {})]
    /\ UNCHANGED <<windows, nextWindowId, nextSlotId, now, gen, dismissedIds, projector>>

cancelBooking(st, slotId) ==
    /\ CanStart(st)
    /\ Started(st)
    /\ LET matched == ownedSlotMatch(st, slotId)
       IN /\ slots' = (slots \ matched) \cup
                {reopened(s) : s \in matched}
          /\ calls' = [calls EXCEPT ![st] =
                [Done("cancelBooking", OK, IF matched # {} THEN {"update slot"} ELSE {})
                    EXCEPT !.slot = IF matched # {} THEN slotId ELSE 0]]
    /\ UNCHANGED <<windows, nextWindowId, nextSlotId, now, gen, dismissedIds, projector>>

----------------------------------------------------------------------------
(* cancelConsultationBooking *)

CancelledMarker == <<"[","C","A","N","C","E","L","L","E","D"," ","b","y"," ","P","r","o","f","e","s","s","o","r","]">>
ReasonLabel == <<"\n","R","e","a","s","o","n",":"," ">>
OriginalLabel == <<"\n","\n","[","O","r","i","g","i","n","a","l","]",":"," ">>
NoPreviousAgenda == <<"N","o"," ","p","r","e","v","i","o","u","s"," ","a","g","e","n","d","a">>

cancelledAgenda(reason, agendaCol) ==
    LET oldAgenda == IF agendaCol = NoText \/ agendaCol = Some(<<>>)
                     THEN NoPreviousAgenda ELSE agendaCol[1]
    IN IF reason # <<>>
       THEN CancelledMarker \o ReasonLabel \o reason \o OriginalLabel \o oldAgenda
       ELSE CancelledMarker \o OriginalLabel \o oldAgenda

\* the cancellation also clearing the student reference
cancelled_clearStudent(s, newAgenda) ==
    [s EXCEPT !.status = "cancelled", !.student_id = NULL, !.agenda = newAgenda]

\* update { status: "cancelled", agenda: newAgenda }
cancelled(s, newAgenda) == [s EXCEPT !.status = "cancelled", !.agenda = newAgenda]

cancelConsultationBooking_fetch(p, slotId, reason) ==
    /\ CanStart(p)
    /\ Started(p)
    /\ IF ~SlotExists(slotId)
       THEN calls' = [calls EXCEPT ![p] =
               Done("cancelConsultationBooking", ERR_STORE, {})]
       ELSE calls' = [calls EXCEPT ![p] =
               InFlight("cancelConsultationBooking", "cancel_update", slotId, 0, Some(cancelledAgenda(reason, SlotById(slotId).agenda)), <<>>, <<>>, {})]
    /\ UNCHANGED <<windows, slots, nextWindowId, nextSlotId, now, gen, dismissedIds, projector>>

cancelConsultationBooking_update(p) ==
    /\ calls[p].pc = "cancel_update"
    /\ LET c == calls[p]
           matched == {s \in slots : s.id = c.slot}
       IN /\ slots' = (slots \ matched) \cup
                {cancelled(s, c.agenda) : s \in matched}
          /\ calls' = [calls EXCEPT ![p] = Return(c, OK, IF matched # {} THEN {"update slot"} ELSE {})]
    /\ UNCHANGED <<windows, nextWindowId, nextSlotId, now, quota, gen, dismissedIds, projector>>

----------------------------------------------------------------------------
(* StudentNotificationBell *)

\* the slots the bell lists for a student
cancelledSlots(st) == {s \in slots : s.status = "cancelled" /\ s.student_id = st}
unreadSlots(st) == {s \in cancelledSlots(st) : s.id \notin dismissedIds[st]}

\* the dismiss button of an unread notification; the dismissed ids live in
\* the browser's local storage
handleDismiss(st, slotId) ==
    /\ \E s \in unreadSlots(st) : s.id = slotId
    /\ dismissedIds' = [dismissedIds EXCEPT ![st] = @ \cup {slotId}]
    /\ UNCHANGED <<windows, slots, nextWindowId, nextSlotId, now, calls, quota, gen, projector>>

\* the "Mark all read" button, shown while a notification is unread
markAllAsRead(st) ==
    /\ unreadSlots(st) # {}
    /\ dismissedIds' = [dismissedIds EXCEPT ![st] = @ \cup {s.id : s \in cancelledSlots(st)}]
    /\ UNCHANGED <<windows, slots, nextWindowId, nextSlotId, now, calls, quota, gen, projector>>

\* JavaScript regular expressions over a text: \s, ., a literal, $
Whitespace == {" ", "\n", "\t"}
Min(S) == CHOOSE x \in S : \A y \in S : x <= y
Max(S) == CHOOSE x \in S : \A y \in S : x >= y

\* the literal pat matches text at index i
literalAt(text, i, pat) ==
    /\ i + Len(pat) - 1 <= Len(text)
    /\ \A k \in 1..Len(pat) : text[i + k - 1] = pat[k]

\* the length of the longest run of \s from index j
spaceRun(text, j) ==
    Max({n \in 0..(Len(text) + 1 - j) : \A k \in 0..(n - 1) : text[j + k] \in Whitespace})

\* the length of the longest run of . (any character but a line break) from j
dotRun(text, j) ==
    Max({n \in 0..(Len(text) + 1 - j) : \A k \in 0..(n - 1) : text[j + k] # "\n"})

\* String.prototype.trim
trim(text) ==
    LET kept == {k \in 1..Len(text) : text[k] \notin Whitespace}
    IN IF kept = {} THEN <<>> ELSE SubSeq(text, Min(kept), Max(kept))

ReasonPattern == <<"R","e","a","s","o","n",":">>
OriginalLookahead == <<"\n","\n","[","O","r","i","g","i","n","a","l","]">>
OriginalPattern == <<"[","O","r","i","g","i","n","a","l","]",":">>
NoSpecificReason == <<"N","o"," ","s","p","e","c","i","f","i","c"," ","r","e","a","s","o","n"," ","p","r","o","v","i","d","e","d",".">>
GeneralConsultation == <<"G","e","n","e","r","a","l"," ","C","o","n","s","u","l","t","a","t","i","o","n">>
Ellipsis == <<".",".",".">>
TopicMaxLen == 50

\* agenda.match(/Reason:\s*(.*?)(?=\n\n\[Original\]|$)/): group 1 of the first
\* match, \s* greedy and .*? lazy; NoText when there is no match
reasonMatch(text) ==
    LET lookahead(e) == literalAt(text, e, OriginalLookahead) \/ e = Len(text) + 1
        attempts(i) ==
            {a \in [ws : 0..spaceRun(text, i + Len(ReasonPattern)), len : 0..Len(text)] :
                /\ a.len <= dotRun(text, i + Len(ReasonPattern) + a.ws)
                /\ lookahead(i + Len(ReasonPattern) + a.ws + a.len)}
        starts == {i \in 1..Len(text) :
                      literalAt(text, i, ReasonPattern) /\ attempts(i) # {}}
    IN IF starts = {} THEN NoText
       ELSE LET i == Min(starts)
                ws == Max({a.ws : a \in attempts(i)})
                len == Min({a.len : a \in {b \in attempts(i) : b.ws = ws}})
                from == i + Len(ReasonPattern) + ws
            IN Some(SubSeq(text, from, from + len - 1))

\* agenda.match(/\[Original\]:\s*([\s\S]*)/): group 1 of the first match
topicMatch(text) ==
    LET starts == {i \in 1..Len(text) : literalAt(text, i, OriginalPattern)}
    IN IF starts = {} THEN NoText
       ELSE LET i == Min(starts)
                from == i + Len(OriginalPattern) + spaceRun(text, i + Len(OriginalPattern))
            IN Some(SubSeq(text, from, Len(text)))

\* renderNotification: the reason shown for a slot's agenda column
renderNotification_reason(agendaCol) ==
    IF agendaCol = NoText \/ agendaCol[1] = <<>> THEN NoSpecificReason
    ELSE LET m == reasonMatch(agendaCol[1])
         IN IF m # NoText /\ m[1] # <<>> THEN trim(m[1]) ELSE NoSpecificReason

\* renderNotification: the original topic shown for a slot's agenda column
renderNotification_originalTopic(agendaCol) ==
    IF agendaCol = NoText \/ agendaCol[1] = <<>> THEN GeneralConsultation
    ELSE LET m == topicMatch(agendaCol[1])
         IN IF m # NoText /\ m[1] # <<>>
            THEN LET t == trim(m[1])
                 IN SubSeq(t, 1, IF Len(t) < TopicMaxLen THEN Len(t) ELSE TopicMaxLen)
                    \o (IF Len(m[1]) > TopicMaxLen THEN Ellipsis ELSE <<>>)
            ELSE GeneralConsultation

----------------------------------------------------------------------------
(* deletePastSlot, deleteMultiplePastSlots *)

deletePastSlot(p, slotId) ==
    /\ CanStart(p)
    /\ Started(p)
    /\ slots' = {s \in slots : s.id # slotId}
    /\ calls' = [calls EXCEPT ![p] =
          Done("deletePastSlot", OK, IF SlotExists(slotId) THEN {"delete slot"} ELSE {})]
    /\ UNCHANGED <<windows, nextWindowId, nextSlotId, now, gen, dismissedIds, projector>>

deleteMultiplePastSlots(p, slotIds) ==
    /\ CanStart(p)
    /\ Started(p)
    /\ slots' = {s \in slots : s.id \notin slotIds}
    /\ calls' = [calls EXCEPT ![p] =
          Done("deleteMultiplePastSlots", OK, IF slots' # slots THEN {"delete slots"} ELSE {})]
    /\ UNCHANGED <<windows, nextWindowId, nextSlotId, now, gen, dismissedIds, projector>>

----------------------------------------------------------------------------
(* The clock *)

Tick ==
    /\ now + TickMinutes <= NowStart + MaxTicks * TickMinutes
    /\ now' = now + TickMinutes
    /\ UNCHANGED <<windows, slots, nextWindowId, nextSlotId, calls, quota, gen, dismissedIds, projector>>

----------------------------------------------------------------------------
(* Specification of the whole system *)

SlotIds == 1..MaxSlotId
WindowIds == 1..MaxWindowId
SlotIdLists == {{}, {1}, {2, 3}}

Next ==
    \/ \E p \in Professors, form \in Forms, ok \in BOOLEAN :
          createConsultationWindow_begin(p, form, ok)
    \/ \E p \in Professors, ok \in BOOLEAN : createConsultationWindow_insertSlots(p, ok)
    \/ \E p \in Professors, wid \in WindowIds : deleteConsultationWindow(p, wid)
    \/ \E p \in Professors, wid \in WindowIds, form \in Forms, ok \in BOOLEAN :
          editConsultationWindow_guard(p, wid, form, ok)
    \/ \E p \in Professors, ok \in BOOLEAN : editConsultationWindow_delete(p, ok)
    \/ \E p \in Professors, ok \in BOOLEAN : editConsultationWindow_update(p, ok)
    \/ \E p \in Professors, ok \in BOOLEAN : editConsultationWindow_insert(p, ok)
    \/ \E st \in Students, id \in SlotIds, a \in Agendas : bookSlot_fetch(st, id, a)
    \/ \E st \in Students : bookSlot_update(st)
    \/ \E st \in Students, id \in SlotIds, a \in Agendas : updateBookingAgenda(st, id, a)
    \/ \E st \in Students, id \in SlotIds : cancelBooking(st, id)
    \/ \E p \in Professors, id \in SlotIds, r \in Reasons :
          cancelConsultationBooking_fetch(p, id, r)
    \/ \E p \in Professors : cancelConsultationBooking_update(p)
    \/ \E p \in Professors, id \in SlotIds : deletePastSlot(p, id)
    \/ \E p \in Professors, ids \in SlotIdLists : deleteMultiplePastSlots(p, ids)
    \/ Tick

Spec == Init /\ [][Next]_vars

----------------------------------------------------------------------------
(* The generation loop on its own: any valid range and duration *)

GenDate == 1
GenStarts == {0, 540}
GenInputs ==
    {[pc |-> "input", start_time |-> s, end_time |-> e, duration |-> d, out |-> <<>>] :
        s \in GenStarts, e \in 1..(540 + GenMaxSpan), d \in MinDuration..MaxDuration}

GenInit ==
    /\ windows = {}
    /\ slots = {}
    /\ nextWindowId = 1
    /\ nextSlotId = 1
    /\ now = NowStart
    /\ calls = [c \in Callers |-> IdleCall]
    /\ quota = 0
    /\ dismissedIds = [st \in Students |-> {}]
    /\ projector = ProjectorOff
    /\ gen \in {g \in GenInputs : g.end_time > g.start_time
                                  /\ g.end_time - g.start_time <= GenMaxSpan}

generate ==
    /\ gen.pc = "input"
    /\ gen' = [gen EXCEPT !.pc = "done",
                          !.out = generateSlots(parse(GenDate, gen.start_time),
                                                parse(GenDate, gen.end_time), gen.duration)]
    /\ UNCHANGED <<windows, slots, nextWindowId, nextSlotId, now, calls, quota, dismissedIds, projector>>

GenNext == generate

GenSpec == GenInit /\ [][GenNext]_vars

----------------------------------------------------------------------------
(* Students racing for the open slots: every student books at most once *)

RaceNext ==
    \/ \E st \in Students, id \in SlotIds, a \in ValidAgendas :
          calls[st].pc = "idle" /\ bookSlot_fetch(st, id, a)
    \/ \E st \in Students : bookSlot_update(st)
    \/ Tick

RaceInit == Init /\ slots = InitSlots

RaceSpec == RaceInit /\ [][RaceNext]_vars

----------------------------------------------------------------------------
(* Cancellation notices: a professor cancels the booking of student s1 and   *)
(* the student's bell shows it                                              *)

NoticeInit ==
    /\ windows = {InitWindow}
    /\ \E a \in NoticeAgendas :
          slots = {IF s.id = 1
                   THEN [s EXCEPT !.status = "booked", !.student_id = "s1",
                                  !.agenda = Some(a)]
                   ELSE s : s \in InitSlots}
    /\ nextWindowId = 2
    /\ nextSlotId = Cardinality(InitSlots) + 1
    /\ now = NowStart
    /\ calls = [c \in Callers |-> IdleCall]
    /\ quota = MaxCalls
    /\ gen = GenOff
    /\ dismissedIds = [st \in Students |-> {}]
    /\ projector = ProjectorOff

NoticeNext ==
    \/ \E p \in Professors, id \in SlotIds, r \in NoticeReasons :
          cancelConsultationBooking_fetch(p, id, r)
    \/ \E p \in Professors : cancelConsultationBooking_update(p)
    \/ \E st \in Students, id \in SlotIds : cancelBooking(st, id)
    \/ \E p \in Professors, id \in SlotIds : deletePastSlot(p, id)
    \/ \E st \in Students, id \in SlotIds : handleDismiss(st, id)
    \/ \E st \in Students : markAllAsRead(st)

NoticeSpec == NoticeInit /\ [][NoticeNext]_vars

----------------------------------------------------------------------------
(* Window edits submitted from two sessions of the same professor *)

EditInit == Init /\ slots = InitSlots

EditNext ==
    \/ \E p \in ProfessorSessions, wid \in WindowIds, form \in Forms, ok \in BOOLEAN :
          editConsultationWindow_guard(p, wid, form, ok)
    \/ \E p \in ProfessorSessions, ok \in BOOLEAN : editConsultationWindow_delete(p, ok)
    \/ \E p \in ProfessorSessions, ok \in BOOLEAN : editConsultationWindow_update(p, ok)
    \/ \E p \in ProfessorSessions, ok \in BOOLEAN : editConsultationWindow_insert(p, ok)

EditSpec == EditInit /\ [][EditNext]_vars

----------------------------------------------------------------------------
(* Window edits submitted by the owner and by another professor; the store   *)
(* applies no row policy                                                    *)

OwnerNext ==
    \/ \E p \in {"p1", OtherProfessor}, wid \in WindowIds, form \in Forms, ok \in BOOLEAN :
          editConsultationWindow_guard(p, wid, form, ok)
    \/ \E p \in {"p1", OtherProfessor}, ok \in BOOLEAN : editConsultationWindow_delete(p, ok)
    \/ \E p \in {"p1", OtherProfessor}, ok \in BOOLEAN : editConsultationWindow_update(p, ok)
    \/ \E p \in {"p1", OtherProfessor}, ok \in BOOLEAN : editConsultationWindow_insert(p, ok)

OwnerSpec == EditInit /\ [][OwnerNext]_vars

----------------------------------------------------------------------------
(* The student dashboard's realtime slot list.  projector.slots is the      *)
(* component's state, projector.channel the change events pushed to it and   *)
(* not yet handled, projector.replicated the slot table as of the last       *)
(* event put on the channel, projector.last the event handled last.          *)

RECURSIVE orderById(_)
orderById(rows) ==
    IF rows = {} THEN <<>>
    ELSE LET first == CHOOSE s \in rows : \A t \in rows : s.id <= t.id
         IN <<first>> \o orderById(rows \ {first})

\* the page's query: the slots as they are when the dashboard is rendered
initialSlots(table) == orderById(table)

\* { ...s, ...updated }
spread(s, updated) ==
    [f \in DOMAIN s \cup DOMAIN updated |-> IF f \in DOMAIN updated THEN updated[f] ELSE s[f]]

\* prev.map((s) => (s.id === updated.id ? { ...s, ...updated } : s))
onUpdate(prev, updated) ==
    [i \in 1..Len(prev) |->
        IF prev[i].id = updated.id THEN spread(prev[i], updated) ELSE prev[i]]

\* the INSERT handler without its check for a known id
onInsert_noDedup(prev, inserted) == Append(prev, inserted)

\* if (prev.some((s) => s.id === inserted.id)) return prev; return [...prev, inserted]
onInsert(prev, inserted) ==
    IF \E i \in 1..Len(prev) : prev[i].id = inserted.id
    THEN prev
    ELSE Append(prev, inserted)

\* the channel subscribes to UPDATE and INSERT; no handler is registered for
\* any other event
dispatch(prev, ev) ==
    CASE ev.eventType = "UPDATE" -> onUpdate(prev, ev.row)
      [] ev.eventType = "INSERT" -> onInsert(prev, ev.row)
      [] OTHER -> prev

\* the next event on the channel reaches the component
deliver ==
    /\ projector.channel # <<>>
    /\ projector' = [projector EXCEPT
                        !.slots = dispatch(@, Head(projector.channel)),
                        !.channel = Tail(@),
                        !.last = Head(projector.channel)]
    /\ UNCHANGED <<windows, slots, nextWindowId, nextSlotId, now, calls, quota, gen, dismissedIds>>

\* The handlers on their own: the channel carries any INSERT or UPDATE event,
\* for ids the list holds and ids it does not, one at a time.
MaxEventId == 3
EventRows ==
    {[(CHOOSE s \in InitSlots : s.id = 1) EXCEPT
         !.id = id, !.status = v[1], !.student_id = v[2], !.agenda = v[3]] :
        id \in 1..MaxEventId,
        v \in {<<"open", NULL, NoText>>, <<"booked", "s1", Some(AgendaTen)>>}}

push(ev) ==
    /\ projector.channel = <<>>
    /\ projector' = [projector EXCEPT !.channel = <<ev>>]
    /\ UNCHANGED <<windows, slots, nextWindowId, nextSlotId, now, calls, quota, gen, dismissedIds>>

MergeInit ==
    /\ windows = {InitWindow}
    /\ slots = InitSlots
    /\ nextWindowId = 2
    /\ nextSlotId = Cardinality(InitSlots) + 1
    /\ now = NowStart
    /\ calls = [c \in Callers |-> IdleCall]
    /\ quota = 0
    /\ gen = GenOff
    /\ dismissedIds = [st \in Students |-> {}]
    /\ \E table \in {{}, InitSlots, InitSlotsBooked} :
          projector = [replicated |-> slots, channel |-> <<>>,
                       slots |-> initialSlots(table), last |-> NoEvent]

MergeNext ==
    \/ \E type \in {"INSERT", "UPDATE"}, row \in EventRows :
          push([eventType |-> type, row |-> row])
    \/ deliver

MergeSpec == MergeInit /\ [][MergeNext]_vars

----------------------------------------------------------------------------
(* The dashboard fed by the store: every committed statement puts one change *)
(* event per row it inserted, updated or deleted on the channel, in commit   *)
(* order, before the store takes the next statement.                         *)

events(type, rows) ==
    LET ordered == orderById(rows)
    IN [i \in 1..Len(ordered) |-> [eventType |-> type, row |-> ordered[i]]]

\* the row changes between two contents of the slot table
changeEvents(before, after) ==
    LET idsBefore == {s.id : s \in before}
        idsAfter == {s.id : s \in after}
    IN events("DELETE", {s \in before : s.id \notin idsAfter})
       \o events("UPDATE", {s \in after : s.id \in idsBefore /\ s \notin before})
       \o events("INSERT", {s \in after : s.id \notin idsBefore})

published == projector.replicated = slots

publish ==
    /\ ~published
    /\ projector' = [projector EXCEPT
                        !.channel = @ \o changeEvents(projector.replicated, slots),
                        !.replicated = slots]
    /\ UNCHANGED <<windows, slots, nextWindowId, nextSlotId, now, calls, quota, gen, dismissedIds>>

ProjectorInit ==
    /\ windows = {InitWindow}
    /\ slots \in {InitSlots, InitSlotsBooked}
    /\ nextWindowId = 2
    /\ nextSlotId = Cardinality(InitSlots) + 1
    /\ now = NowStart
    /\ calls = [c \in Callers |-> IdleCall]
    /\ quota = MaxCalls
    /\ gen = GenOff
    /\ dismissedIds = [st \in Students |-> {}]
    /\ projector = [replicated |-> slots, channel |-> <<>>,
                    slots |-> initialSlots(slots), last |-> NoEvent]

ProjectorNext ==
    \/ \E p \in Professors, form \in Forms :
          published /\ createConsultationWindow_begin(p, form, TRUE)
    \/ \E p \in Professors : published /\ createConsultationWindow_insertSlots(p, TRUE)
    \/ \E p \in Professors, wid \in WindowIds : published /\ deleteConsultationWindow(p, wid)
    \/ \E p \in Professors, wid \in WindowIds, form \in Forms :
          published /\ editConsultationWindow_guard(p, wid, form, TRUE)
    \/ \E p \in Professors : published /\ editConsultationWindow_delete(p, TRUE)
    \/ \E p \in Professors : published /\ editConsultationWindow_update(p, TRUE)
    \/ \E p \in Professors : published /\ editConsultationWindow_insert(p, TRUE)
    \/ \E st \in Students, id \in SlotIds, a \in ValidAgendas :
          published /\ bookSlot_fetch(st, id, a)
    \/ \E st \in Students : published /\ bookSlot_update(st)
    \/ \E st \in Students, id \in SlotIds : published /\ cancelBooking(st, id)
    \/ \E p \in Professors, id \in SlotIds, r \in Reasons :
          published /\ cancelConsultationBooking_fetch(p, id, r)
    \/ \E p \in Professors : published /\ cancelConsultationBooking_update(p)
    \/ publish
    \/ deliver

ProjectorSpec == ProjectorInit /\ [][ProjectorNext]_vars

----------------------------------------------------------------------------
(* Windows created, edited and deleted from two sessions of the professor;  *)
(* the store refuses a statement only for a broken constraint               *)

WindowNext ==
    \/ \E p \in ProfessorSessions, form \in Forms :
          createConsultationWindow_begin(p, form, TRUE)
    \/ \E p \in ProfessorSessions : createConsultationWindow_insertSlots(p, TRUE)
    \/ \E p \in ProfessorSessions, wid \in WindowIds : deleteConsultationWindow(p, wid)
    \/ \E p \in ProfessorSessions, wid \in WindowIds, form \in Forms :
          editConsultationWindow_guard(p, wid, form, TRUE)
    \/ \E p \in ProfessorSessions : editConsultationWindow_delete(p, TRUE)
    \/ \E p \in ProfessorSessions : editConsultationWindow_update(p, TRUE)
    \/ \E p \in ProfessorSessions : editConsultationWindow_insert(p, TRUE)

WindowSpec == Init /\ [][WindowNext]_vars

TypeOK ==
    /\ \A s \in slots : s.status \in {"open", "booked", "cancelled"}
    /\ \A c \in Callers : calls[c].res \in Errors \cup {OK, "none"}

----------------------------------------------------------------------------
(* Properties *)

BookCallers(k) == {st \in Students : calls[st].op = "bookSlot" /\ calls[st].slot = k}
Winners(k) == {st \in BookCallers(k) : calls[st].pc = "done" /\ calls[st].res = OK}

\* C1: when students race for an open slot with valid agendas, each booking
\* once, at most one of them is ever told success, and once all of them have
\* returned exactly one was told success, every other one was told the slot is
\* no longer available, and the slot is booked with the winner's id and agenda.
C1_BookingRace ==
    \A k \in SlotIds :
        /\ Cardinality(Winners(k)) <= 1
        /\ (BookCallers(k) # {} /\ \A st \in BookCallers(k) : calls[st].pc = "done")
              => \E w \in BookCallers(k) :
                    /\ calls[w].res = OK
                    /\ \A o \in BookCallers(k) \ {w} : calls[o].res = ERR_UNAVAILABLE
                    /\ SlotExists(k)
                    /\ SlotById(k).status = "booked"
                    /\ SlotById(k).student_id = w
                    /\ SlotById(k).agenda = calls[w].agenda

\* two students have raced for slot 1 with distinct agendas and both returned
C1_Witness ==
    /\ BookCallers(1) = Students
    /\ \A st \in Students : calls[st].pc = "done"
    /\ calls["s1"].agenda # calls["s2"].agenda
    /\ calls["s2"].res = OK
    /\ calls["s1"].res = ERR_UNAVAILABLE

\* C2: a bookSlot whose reservation finds the slot not open (booked, by
\* anyone including the caller, or cancelled) returns "no longer available"
\* and changes no slot; no step moves a booked slot to another student.
C2_NotOpenRejected ==
    [][ /\ \A st \in Students :
              (/\ bookSlot_update(st)
               /\ \E s \in slots : s.id = calls[st].slot /\ s.status # "open")
              => (/\ calls'[st].pc = "done"
                  /\ calls'[st].res = ERR_UNAVAILABLE
                  /\ slots' = slots)
        /\ \A s \in slots : \A t \in slots' :
              (s.id = t.id /\ s.status = "booked" /\ t.status = "booked")
              => t.student_id = s.student_id ]_vars

\* a student who holds the booking of a slot has booked it again and was refused
C2_Witness ==
    \E st \in Students :
        /\ calls[st].op = "bookSlot"
        /\ calls[st].pc = "done"
        /\ calls[st].res = ERR_UNAVAILABLE
        /\ \E s \in slots : s.id = calls[st].slot /\ s.status = "booked" /\ s.student_id = st

\* C3: an editConsultationWindow whose guard query finds a booked slot in the
\* window returns at once with an error, the "cannot edit ... booked
\* appointments" error when the form is well-formed and the query succeeds,
\* and has changed no window row and no slot row.
C3_EditGuard ==
    [][ \A p \in Professors, wid \in WindowIds, form \in Forms, ok \in BOOLEAN :
          (/\ quota' # quota
           /\ calls'[p].op = "editConsultationWindow"
           /\ \E s \in slots : s.window_id = wid /\ s.status = "booked"
           /\ editConsultationWindow_guard(p, wid, form, ok))
          => (/\ calls'[p].pc = "done"
              /\ calls'[p].res \in Errors
              /\ (windowSchema(form) /\ ok) => calls'[p].res = ERR_BOOKED
              /\ calls'[p].wrote = {}
              /\ windows' = windows
              /\ slots' = slots) ]_vars

\* an edit was refused for a window holding a booked and an open slot
C3_Witness ==
    \E p \in Professors :
        /\ calls[p].op = "editConsultationWindow"
        /\ calls[p].res = ERR_BOOKED
        /\ \E s, t \in slots : /\ s.window_id = t.window_id
                               /\ s.status = "booked"
                               /\ t.status = "open"

\* C4: every slot row removed by the delete step of editConsultationWindow
\* is not booked at the moment it is removed.
C4_EditDeletesNoBooking ==
    [][ \A p \in Professors, ok \in BOOLEAN :
          editConsultationWindow_delete(p, ok)
          => \A s \in slots \ slots' : s.status # "booked" ]_vars

GenStart == parse(GenDate, gen.start_time)
GenEnd == parse(GenDate, gen.end_time)
GenLen == Len(gen.out)
SlotStart(i) == gen.out[i].start_time.instant
SlotEnd(i) == gen.out[i].end_time.instant

\* C5: for every valid range and duration the generated list is sorted by
\* start, pairwise non-overlapping, every slot is exactly duration long, the
\* first slot starts at the range start and no slot ends after the range end;
\* 09:00-10:00 by 20 gives 09:00-09:20, 09:20-09:40, 09:40-10:00.
C5_GenerationCorrect ==
    gen.pc = "done" =>
        /\ \A i, j \in 1..GenLen : i < j => SlotStart(i) < SlotStart(j)
        /\ \A i, j \in 1..GenLen : i < j => SlotEnd(i) <= SlotStart(j)
        /\ \A i \in 1..GenLen : SlotEnd(i) - SlotStart(i) = gen.duration
        /\ GenLen > 0 => SlotStart(1) = GenStart
        /\ \A i \in 1..GenLen : SlotEnd(i) <= GenEnd
        /\ (gen.start_time = 540 /\ gen.end_time = 600 /\ gen.duration = 20)
              => gen.out = <<[start_time |-> toISOString(GenStart),
                              end_time |-> toISOString(GenStart + 20)],
                             [start_time |-> toISOString(GenStart + 20),
                              end_time |-> toISOString(GenStart + 40)],
                             [start_time |-> toISOString(GenStart + 40),
                              end_time |-> toISOString(GenStart + 60)]>>

\* the loop has run on a range that leaves a remainder after several slots
C5_Witness ==
    /\ gen.pc = "done"
    /\ GenLen >= 3
    /\ (gen.end_time - gen.start_time) % gen.duration # 0

\* C6: consecutive slots are contiguous, the number of slots is
\* floor((end - start) / duration), so a slot ending exactly at the range end
\* is emitted, and the unused tail is shorter than duration.
C6_GenerationComplete ==
    gen.pc = "done" =>
        /\ \A i \in 1..(GenLen - 1) : SlotStart(i + 1) = SlotEnd(i)
        /\ GenLen = (gen.end_time - gen.start_time) \div gen.duration
        /\ LET tailStart == IF GenLen = 0 THEN GenStart ELSE SlotEnd(GenLen)
           IN /\ GenEnd - tailStart >= 0
              /\ GenEnd - tailStart < gen.duration
        /\ ((gen.end_time - gen.start_time) % gen.duration = 0)
              => SlotEnd(GenLen) = GenEnd

\* the loop has run on a range that is a whole number of slots
C6_Witness ==
    /\ gen.pc = "done"
    /\ (gen.end_time - gen.start_time) % gen.duration = 0
    /\ GenLen >= 2
    /\ SlotEnd(GenLen) = GenEnd

\* C7: createConsultationWindow on a well-formed range shorter than one
\* duration returns an error, the "time range is too short" error when the
\* start is not in the past, and has inserted no window row and no slot row.
C7_TooShortRejected ==
    [][ \A p \in Professors, form \in Forms, ok \in BOOLEAN :
          (/\ quota' # quota
           /\ calls'[p].op = "createConsultationWindow"
           /\ windowSchema(form)
           /\ form.end_time - form.start_time < form.duration
           /\ createConsultationWindow_begin(p, form, ok))
          => (/\ calls'[p].pc = "done"
              /\ calls'[p].res \in Errors
              /\ ~isBefore(parse(form.date, form.start_time), now)
                    => calls'[p].res = ERR_TOO_SHORT
              /\ calls'[p].wrote = {}
              /\ windows' = windows
              /\ slots' = slots) ]_vars

\* a too-short range was refused and the tables hold what they held at first
C7_Witness ==
    \E p \in Professors :
        /\ calls[p].op = "createConsultationWindow"
        /\ calls[p].res = ERR_TOO_SHORT
        /\ windows = {InitWindow}
        /\ slots = InitSlots

\* C8: a createConsultationWindow or editConsultationWindow that returned an
\* error has written nothing to consultation_windows or slots.
C8_NoPartialWrites ==
    \A p \in Professors :
        (/\ calls[p].pc = "done"
         /\ calls[p].op \in {"createConsultationWindow", "editConsultationWindow"}
         /\ calls[p].res \in Errors)
        => calls[p].wrote = {}

\* C9: a cancelled slot stays cancelled for as long as its row exists.
C9_CancelledIsTerminal ==
    [][ \A s \in slots : \A t \in slots' :
          (s.id = t.id /\ s.status = "cancelled") => t.status = "cancelled" ]_vars

\* C10: cancelBooking by the student who holds a booked slot leaves that slot
\* open with null student_id and null agenda, and every other slot as it was.
C10_StudentCancel ==
    [][ \A st \in Students, id \in SlotIds :
          (/\ quota' # quota
           /\ calls'[st].op = "cancelBooking"
           /\ \E s \in slots : s.id = id /\ s.student_id = st /\ s.status = "booked"
           /\ cancelBooking(st, id))
          => LET s == SlotById(id)
             IN slots' = (slots \ {s}) \cup
                   {[s EXCEPT !.status = "open", !.student_id = NULL, !.agenda = NoText]} ]_vars

\* a student has cancelled their own booking, the professor never acted, and
\* both slots of the window are open again with no student and no agenda
C10_Witness ==
    /\ \E st \in Students : calls[st].op = "cancelBooking" /\ calls[st].wrote # {}
    /\ \A p \in Professors : calls[p].pc = "idle"
    /\ Cardinality(slots) = 2
    /\ \A s \in slots : s.status = "open" /\ s.student_id = NULL /\ s.agenda = NoText

\* C11: cancelConsultationBooking on a booked slot leaves it cancelled with
\* the student_id it had; the only step that takes a slot row from a student
\* to no student is that student's own cancelBooking.
C11_ProfessorCancelRetainsStudent ==
    [][ /\ \A p \in Professors :
              (/\ cancelConsultationBooking_update(p)
               /\ \E s \in slots : s.id = calls[p].slot /\ s.status = "booked")
              => LET s == SlotById(calls[p].slot)
                 IN /\ s.student_id # NULL
                    /\ \E t \in slots' : /\ t.id = s.id
                                         /\ t.status = "cancelled"
                                         /\ t.student_id = s.student_id
        /\ \A s \in slots : \A t \in slots' :
              (s.id = t.id /\ s.student_id # NULL /\ t.student_id = NULL)
              => cancelBooking(s.student_id, s.id) ]_vars

\* the professor has cancelled the slot student s1 had booked, with a reason
C11_Witness ==
    /\ \E p \in Professors : /\ calls[p].op = "cancelConsultationBooking"
                              /\ calls[p].wrote # {}
    /\ \E s \in slots : /\ s.status = "cancelled"
                         /\ s.student_id = "s1"
                         /\ s.agenda = Some(cancelledAgenda(ReasonSick, Some(AgendaTen)))

\* C12: whenever a slot's agenda is the text cancelConsultationBooking writes
\* for a non-empty reason r over a prior agenda a, the bell's reason
\* extraction gives back exactly r and its original-agenda extraction gives
\* back exactly a.
C12_ReasonRoundTrip ==
    \A s \in slots : \A r \in NoticeReasons \ {<<>>} : \A a \in NoticeAgendas :
        (s.status = "cancelled" /\ s.agenda = Some(cancelledAgenda(r, Some(a))))
        => /\ renderNotification_reason(s.agenda) = r
           /\ renderNotification_originalTopic(s.agenda) = a

\* C13: bookSlot with an agenda shorter than 10 characters returns the
\* agenda-length error at once and changes no slot; with an agenda of exactly
\* 10 characters on an open slot that has not started it passes validation,
\* and its reservation of a slot that is still open returns success.
C13_AgendaLengthBoundary ==
    [][ /\ \A st \in Students, id \in SlotIds, a \in Agendas :
              (/\ quota' # quota
               /\ calls'[st].op = "bookSlot"
               /\ bookSlot_fetch(st, id, a))
              => /\ Len(a) < 10
                    => (/\ calls'[st].pc = "done"
                        /\ calls'[st].res = ERR_AGENDA
                        /\ calls'[st].wrote = {}
                        /\ slots' = slots)
                 /\ (/\ Len(a) = 10
                     /\ \E s \in slots : /\ s.id = id
                                          /\ s.status = "open"
                                          /\ s.start_time.instant >= now)
                    => (/\ calls'[st].pc = "book_update"
                        /\ calls'[st].agenda = Some(a))
        /\ \A st \in Students :
              (/\ bookSlot_update(st)
               /\ Len(calls[st].agenda[1]) = 10
               /\ \E s \in slots : s.id = calls[st].slot /\ s.status = "open")
              => calls'[st].res = OK ]_vars

\* one student was refused for a 9-character agenda and left the slots
\* untouched; the other has booked with a 10-character agenda
C13_Witness ==
    /\ calls["s1"].op = "bookSlot"
    /\ calls["s1"].res = ERR_AGENDA
    /\ calls["s2"].op = "bookSlot"
    /\ calls["s2"].res = OK
    /\ \E s \in slots : /\ s.status = "booked"
                         /\ s.student_id = "s2"
                         /\ s.agenda = Some(AgendaTen)
                         /\ s.start_time.instant >= now

\* C14: a bookSlot reservation that returns success has left its slot booked
\* with the caller's student_id and the supplied agenda, and has changed no
\* other slot row and no window row.
C14_BookFrame ==
    [][ \A st \in Students :
          (bookSlot_update(st) /\ calls'[st].res = OK)
          => /\ SlotExists(calls[st].slot)
             /\ LET s == SlotById(calls[st].slot)
                IN slots' = (slots \ {s}) \cup
                      {[s EXCEPT !.status = "booked", !.student_id = st,
                                 !.agenda = calls[st].agenda]}
             /\ \E t \in slots' : /\ t.id = calls[st].slot
                                  /\ t.status = "booked"
                                  /\ t.student_id = st
                                  /\ t.agenda = calls[st].agenda
             /\ windows' = windows ]_vars

\* student s2 has booked the second slot while s1 holds the first
C14_Witness ==
    /\ calls["s2"].op = "bookSlot"
    /\ calls["s2"].res = OK
    /\ calls["s2"].slot = 2
    /\ \E s \in slots : s.id = 1 /\ s.status = "booked" /\ s.student_id = "s1"
    /\ \E s \in slots : /\ s.id = 2
                         /\ s.status = "booked"
                         /\ s.student_id = "s2"
                         /\ s.agenda = Some(AgendaLong)

\* C15: every booked slot has a student_id and every open slot has none.
C15_StatusStudentInvariant ==
    \A s \in slots :
        /\ s.status = "booked" => s.student_id # NULL
        /\ s.status = "open" => s.student_id = NULL

\* a student has given a booking back and the other student has taken a slot
C15_Witness ==
    /\ calls["s1"].op = "cancelBooking"
    /\ calls["s1"].wrote # {}
    /\ calls["s2"].op = "bookSlot"
    /\ calls["s2"].res = OK
    /\ \E s \in slots : s.status = "open"
    /\ \E s \in slots : s.status = "booked"

\* C16: every booked slot has an agenda of at least 10 characters.
C16_BookedAgendaLength ==
    \A s \in slots :
        s.status = "booked" => (s.agenda # NoText /\ Len(s.agenda[1]) >= 10)

\* C17: once a professor has cancelled a slot booked by student S, the slot
\* is in S's notification list, and it stays there, dismissed or not, for as
\* long as the slot row exists; dismissing changes no slot row.
C17_NotificationSurfaced ==
    [][ /\ \A p \in Professors :
              (/\ cancelConsultationBooking_update(p)
               /\ \E s \in slots : s.id = calls[p].slot /\ s.status = "booked")
              => \E t \in slots' : /\ t.id = calls[p].slot
                                   /\ t.status = "cancelled"
                                   /\ t.student_id = SlotById(calls[p].slot).student_id
        /\ \A st \in Students : \A s \in cancelledSlots(st) :
              (\E t \in slots' : t.id = s.id)
              => \E t \in slots' : /\ t.id = s.id
                                   /\ t.status = "cancelled"
                                   /\ t.student_id = st
        /\ dismissedIds' # dismissedIds => slots' = slots ]_vars

\* C18: editConsultationWindow on a window with no booked slot, with a
\* well-formed form whose start is in the past or whose range holds no full
\* slot, returns the matching error at once, having deleted no slot and
\* changed no window row.
C18_EditValidatesBeforeDelete ==
    [][ \A p \in Professors, wid \in WindowIds, form \in Forms :
          LET startDt == parse(form.date, form.start_time)
              tooShort == form.end_time - form.start_time < form.duration
          IN (/\ quota' # quota
              /\ calls'[p].op = "editConsultationWindow"
              /\ windowSchema(form)
              /\ ~(\E s \in slots : s.window_id = wid /\ s.status = "booked")
              /\ (startDt < now \/ tooShort)
              /\ editConsultationWindow_guard(p, wid, form, TRUE))
             => (/\ calls'[p].pc = "done"
                 /\ calls'[p].res = IF startDt < now THEN ERR_PAST_WINDOW
                                                     ELSE ERR_TOO_SHORT
                 /\ calls'[p].wrote = {}
                 /\ windows' = windows
                 /\ slots' = slots) ]_vars

\* an edit to a range shorter than one slot was refused and the window still
\* has its two open slots
C18_Witness ==
    \E p \in Professors :
        /\ calls[p].op = "editConsultationWindow"
        /\ calls[p].res = ERR_TOO_SHORT
        /\ calls[p].wrote = {}
        /\ windows = {InitWindow}
        /\ slots = InitSlots

\* C19: bookSlot on an open slot whose start is before the current time
\* returns the "already passed" error when the agenda is valid, and the
\* agenda-length error when it is not, and leaves the slot as it was.
C19_PastSlotRejected ==
    [][ \A st \in Students, id \in SlotIds, a \in Agendas :
          (/\ quota' # quota
           /\ calls'[st].op = "bookSlot"
           /\ \E s \in slots : /\ s.id = id
                                /\ s.status = "open"
                                /\ s.start_time.instant < now
           /\ bookSlot_fetch(st, id, a))
          => (/\ calls'[st].pc = "done"
              /\ calls'[st].res = IF Len(a) < 10 THEN ERR_AGENDA ELSE ERR_PASSED
              /\ slots' = slots) ]_vars

\* the intervals the generation loop gives for a window row and a duration
WindowIntervals(w, d) ==
    LET out == generateSlots(parse(w.date, w.start_time.minutes),
                             parse(w.date, w.end_time.minutes), d)
    IN {<<out[i].start_time, out[i].end_time>> : i \in 1..Len(out)}

\* C20: the slots of a window never overlap one another, and they are all
\* among the intervals the generation loop gives for the window's current
\* date, start and end and one duration.
C20_SlotsMatchGenerator ==
    \A w \in windows :
        /\ \A s, t \in SlotsOfWindow(w.id) :
              s.id # t.id => \/ s.end_time.instant <= t.start_time.instant
                             \/ t.end_time.instant <= s.start_time.instant
        /\ \E d \in MinDuration..MaxDuration :
              \A s \in SlotsOfWindow(w.id) :
                  <<s.start_time, s.end_time>> \in WindowIntervals(w, d)

\* the intervals the generation loop gives for a submitted form
FormIntervals(form) ==
    LET out == generateSlots(parse(form.date, form.start_time),
                             parse(form.date, form.end_time), form.duration)
    IN {<<out[i].start_time, out[i].end_time>> : i \in 1..Len(out)}

C22_CreatePersists ==
    [][ \A p \in Professors :
          /\ (/\ calls[p].pc \in {"idle", "done"}
              /\ calls'[p].pc = "create_slots")
             => (/\ slots' = slots
                 /\ windows \subseteq windows'
                 /\ Cardinality(windows' \ windows) = 1
                 /\ \A w \in windows' \ windows :
                       /\ w.id = calls'[p].window
                       /\ w.professor_id = p
                       /\ w.date = calls'[p].form.date
                       /\ w.start_time = toTimeColumn(calls'[p].form.start_time)
                       /\ w.end_time = toTimeColumn(calls'[p].form.end_time))
          /\ (/\ calls[p].pc = "create_slots"
              /\ createConsultationWindow_insertSlots(p, TRUE)
              /\ calls'[p].res = OK)
             => LET c == calls[p]
                    added == slots' \ slots
                IN /\ windows' = windows
                   /\ slots \subseteq slots'
                   /\ {<<s.start_time, s.end_time>> : s \in added} = FormIntervals(c.form)
                   /\ Cardinality(added) = Cardinality(FormIntervals(c.form))
                   /\ \A s \in added : /\ s.status = "open"
                                        /\ s.student_id = NULL
                                        /\ s.professor_id = p
                                        /\ s.window_id = c.window
                                        /\ \A t \in slots : t.id # s.id
                   /\ calls'[p].slotsCreated = Cardinality(added) ]_vars

\* a second window with two slots was created next to the first one
C22_Witness ==
    /\ \E p \in Professors : /\ calls[p].op = "createConsultationWindow"
                              /\ calls[p].res = OK
                              /\ calls[p].slotsCreated = 2
    /\ Cardinality(windows) = 2
    /\ Cardinality(SlotsOfWindow(2)) = 2
    /\ Cardinality(SlotsOfWindow(1)) = 2

\* C23: a student's cancelBooking of their booked slot leaves it open, and a
\* bookSlot on that slot by any student with a valid agenda then passes its
\* checks when the slot has not started, and its reservation returns success
\* and books the slot for the caller when the slot is still open.
C23_RebookAfterCancel ==
    [][ /\ \A c \in Students, id \in SlotIds :
              (/\ quota' # quota
               /\ calls'[c].op = "cancelBooking"
               /\ \E s \in slots : s.id = id /\ s.student_id = c /\ s.status = "booked"
               /\ cancelBooking(c, id))
              => (/\ calls'[c].res = OK
                  /\ \E t \in slots' : t.id = id /\ t.status = "open")
        /\ \A c \in Students, st \in Students, a \in ValidAgendas :
              (/\ quota' # quota
               /\ calls'[st].op = "bookSlot"
               /\ calls[c].op = "cancelBooking"
               /\ calls[c].slot # 0
               /\ \E s \in slots : /\ s.id = calls[c].slot
                                    /\ s.status = "open"
                                    /\ s.start_time.instant >= now
               /\ bookSlot_fetch(st, calls[c].slot, a))
              => (/\ calls'[st].pc = "book_update"
                  /\ calls'[st].slot = calls[c].slot
                  /\ calls'[st].agenda = Some(a))
        /\ \A st \in Students :
              (/\ bookSlot_update(st)
               /\ \E s \in slots : s.id = calls[st].slot /\ s.status = "open")
              => (/\ calls'[st].res = OK
                  /\ \E t \in slots' : /\ t.id = calls[st].slot
                                       /\ t.status = "booked"
                                       /\ t.student_id = st
                                       /\ t.agenda = calls[st].agenda) ]_vars

\* student s1 gave slot 1 back and student s2 then booked it
C23_Witness ==
    /\ calls["s1"].op = "cancelBooking"
    /\ calls["s1"].slot = 1
    /\ calls["s2"].op = "bookSlot"
    /\ calls["s2"].res = OK
    /\ calls["s2"].slot = 1
    /\ \E s \in slots : s.id = 1 /\ s.status = "booked" /\ s.student_id = "s2"

\* C24: updateBookingAgenda or cancelBooking by a user who is not the slot's
\* student returns an error and leaves every slot as it was.
C24_NonOwnerRejected ==
    [][ \A st \in Students, id \in SlotIds :
          (/\ quota' # quota
           /\ calls'[st].op \in {"updateBookingAgenda", "cancelBooking"}
           /\ \E s \in slots : s.id = id /\ s.student_id # st
           /\ \/ cancelBooking(st, id)
              \/ \E a \in Agendas : updateBookingAgenda(st, id, a))
          => (/\ calls'[st].res \in Errors
              /\ slots' = slots) ]_vars

\* C25: no step of an editConsultationWindow whose caller does not own the
\* window changes a slot row or a window row.
C25_NonOwnerEditChangesNothing ==
    [][ \A p \in {"p1", OtherProfessor} :
          (/\ calls[p].op = "editConsultationWindow"
           /\ calls[p].pc \in {"edit_delete", "edit_update", "edit_insert"}
           /\ calls'[p] # calls[p]
           /\ \E w \in windows : w.id = calls[p].window /\ w.professor_id # getUser(p))
          => (slots' = slots /\ windows' = windows) ]_vars


ViewIds == {projector.slots[i].id : i \in 1..Len(projector.slots)}
ViewUnique ==
    \A i, j \in 1..Len(projector.slots) :
        projector.slots[i].id = projector.slots[j].id => i = j

\* C26: for any sequence of INSERT and UPDATE events the realtime list holds at
\* most one entry per slot id; an INSERT for an id the list holds changes
\* nothing, an INSERT for a new id appends its row, and an UPDATE replaces
\* exactly the entry with its id by the event's row, leaves every other entry
\* as it was and never adds an entry.
C26_ProjectorMerge ==
    /\ []ViewUnique
    /\ [][(projector.channel # <<>> /\ deliver) =>
            LET ev == Head(projector.channel)
                prev == projector.slots
                next == projector'.slots
            IN /\ (ev.eventType = "INSERT" /\ ev.row.id \in ViewIds) => next = prev
               /\ (ev.eventType = "INSERT" /\ ev.row.id \notin ViewIds)
                     => next = Append(prev, ev.row)
               /\ ev.eventType = "UPDATE"
                     => /\ Len(next) = Len(prev)
                        /\ \A i \in 1..Len(prev) :
                              IF prev[i].id = ev.row.id
                              THEN next[i] = ev.row
                              ELSE next[i] = prev[i]]_vars

\* the event handled last was an INSERT for an id the list holds with other
\* values, and the list kept its two entries
C26_Witness ==
    /\ projector.last.eventType = "INSERT"
    /\ \E i \in 1..Len(projector.slots) :
          /\ projector.slots[i].id = projector.last.row.id
          /\ projector.slots[i] # projector.last.row
    /\ Len(projector.slots) = 2


\* what the dashboard shows of a slot
shown(s) == [id |-> s.id, status |-> s.status, student_id |-> s.student_id,
             agenda |-> s.agenda]

\* C30: once every change event of the store has been handled in commit order,
\* the realtime list holds exactly the rows of the slot table, with the same
\* id, status, student and agenda; a slot the store has deleted is not shown.
C30_ProjectorMatchesStore ==
    (published /\ projector.channel = <<>>)
        => /\ {shown(projector.slots[i]) : i \in 1..Len(projector.slots)}
                 = {shown(s) : s \in slots}
           /\ Len(projector.slots) = Cardinality(slots)


C28_CancelEmbedsCurrentAgenda ==
    [][\A p \in Professors :
          (calls[p].pc = "cancel_update" /\ SlotExists(calls[p].slot)
           /\ cancelConsultationBooking_update(p))
             => LET before == SlotById(calls[p].slot)
                    after == CHOOSE s \in slots' : s.id = before.id
                IN /\ after.student_id = before.student_id
                   /\ \E r \in Reasons :
                         after.agenda = Some(cancelledAgenda(r, before.agenda))]_vars

\* C29: once the professor has cancelled a slot, no later operation modifies
\* its agenda for as long as the slot exists: not updateBookingAgenda by the
\* student the slot retains, and not a repeated cancelConsultationBooking.
C29_CancelledAgendaFrozen ==
    [][\A s \in slots :
          s.status = "cancelled"
             => \A t \in slots' : t.id = s.id => t.agenda = s.agenda]_vars

====
